---- MODULE Spec2Model ----
(***************************************************************************)
(* Model of ElliptiCBn/run_all.py: the run_all wrapper and its _file_check *)
(* helper, run over a small filesystem.  The three functions imported from *)
(* .core (get_macrocycles, get_ellipticity, plot_results) are modelled by  *)
(* their interface only: each either raises for a malformed input file or  *)
(* returns / writes a value that is a fixed function of the input file.    *)
(*                                                                         *)
(* A file name is a triple <<dir, root, ext>>; dir = "" is a name without  *)
(* a directory part (os.path.split(name)[0] == "").  An input xyz file is  *)
(* a pair <<dir, base>>, base being os.path.basename of the name.          *)
(***************************************************************************)
EXTENDS Integers, Sequences, FiniteSets, TLC

VARIABLES
    filename,        \* argument: [kind, items]  (str | list | other)
    summary_file,    \* argument: <<dir, root, ext>>
    overwrite,       \* argument
    fault,           \* the malformed input file and the call that raises on it
    fs,              \* filesystem: path -> file content
    outdir,          \* what output_dir is on disk: "absent" | "file" | "dir"
    pc,              \* position inside run_all
    filenames,       \* local list built at lines 87-93
    i,               \* index of the for loop at line 135
    out_ext,         \* local, line 123
    summary_path,    \* local summary_file after line 129
    excel_file,      \* local, line 141
    html_file,       \* local, line 146
    atom_df,         \* local, line 150
    ellipticities,   \* local, line 160
    fig,             \* local, line 164
    dfs,             \* local, line 134
    ret,             \* outcome of the call: value returned or exception raised
    run,             \* 1 for the first call, 2 for the repeated call
    fs0,             \* fs when the current call started
    outdir0,         \* outdir when the current call started
    prev,            \* outcome of the first call, once it has ended
    attempted,       \* loop indices whose iteration has started
    completed,       \* loop indices whose iteration has reached line 170
    checked,         \* paths that passed through _file_check in this call
    summaryChecked,  \* line 129 was executed in this call
    summaryWritten   \* line 177 or 179 was executed in this call

vars == << filename, summary_file, overwrite, fault, fs, outdir, pc, filenames,
           i, out_ext, summary_path, excel_file, html_file, atom_df,
           ellipticities, fig, dfs, ret, run, fs0, outdir0, prev, attempted,
           completed, checked, summaryChecked, summaryWritten >>

-----------------------------------------------------------------------------
(* Bounds and input universe *)

MaxFiles == 2

OutputDir == "out"
AltDir == "alt"

NoName == << "-", "-" >>
NoPath == << "-", "-", "-" >>

InputNames == { << "", "a" >>, << "d1", "a" >>, << "", "b" >> }

SummaryFiles == { << "", "s", "xlsx" >>, << "", "s", "csv" >>, << "", "s", "txt" >>,
                  << "", "a", "xlsx" >>, << AltDir, "s", "xlsx" >> }

Paths == { OutputDir, AltDir } \X { "a", "b", "s" } \X { "xlsx", "html", "csv", "txt" }

Stages == { "get_macrocycles", "get_ellipticity", "to_excel", "plot_results" }

NoFault == [name |-> NoName, stage |-> "none"]

Faults == { NoFault } \cup [name : InputNames, stage : Stages]

SeqsUpTo(S, n) == UNION { [1..k -> S] : k \in 0..n }

FilenameArgs == { [kind |-> "str", items |-> << f >>] : f \in InputNames }
                \cup { [kind |-> "list", items |-> s] : s \in SeqsUpTo(InputNames, MaxFiles) }
                \cup { [kind |-> "other", items |-> << >>] }

-----------------------------------------------------------------------------
(* File contents *)

NoTable == [cols |-> {}, rows |-> << >>]

Absent == [kind |-> "absent", table |-> NoTable, atoms |-> NoName]
Old == [kind |-> "old", table |-> NoTable, atoms |-> NoName]

Exists(p) == fs[p].kind # "absent"

\* The initial filesystems: output_dir absent, a plain file, or a directory
\* holding some earlier output files.
PreExisting == { {},
                 { << OutputDir, "a", "xlsx" >> },
                 { << OutputDir, "a", "html" >> },
                 { << OutputDir, "b", "xlsx" >> },
                 { << OutputDir, "s", "xlsx" >> },
                 { << AltDir, "s", "xlsx" >> },
                 { << OutputDir, "a", "xlsx" >>, << OutputDir, "s", "csv" >> } }

InitialFs(d, pre) == [p \in Paths |-> IF p \in pre /\ (p[1] = OutputDir => d = "dir")
                                      THEN Old ELSE Absent]

-----------------------------------------------------------------------------
(* .core, by interface *)

\* get_macrocycles(filename): the annotated atom table of one input file.
get_macrocycles(f) == [file |-> f]

\* Rows of the table get_ellipticity returns for the atoms of one input file:
\* one row per accepted ring (zero rows for a file with no ring).
Rings(f) ==
    CASE f = << "", "a" >>   -> << [id |-> 0, ellip |-> 11, file |-> NoName],
                                  [id |-> 1, ellip |-> 12, file |-> NoName] >>
      [] f = << "d1", "a" >> -> << [id |-> 0, ellip |-> 21, file |-> NoName] >>
      [] OTHER               -> << >>

get_ellipticity(adf) == [cols |-> { "id", "ellip" }, rows |-> Rings(adf.file)]

\* plot_results(atom_df, html_file, ...): the html written and the figure returned.
plot_results(adf) == [kind |-> "html", table |-> NoTable, atoms |-> adf.file]

Raises(f, stage) == fault.name = f /\ fault.stage = stage

-----------------------------------------------------------------------------
(* pandas *)

\* df.to_excel(path, index=False) / df.to_csv(path, index=False)
to_excel(df) == [kind |-> "xlsx", table |-> df, atoms |-> NoName]
to_csv(df) == [kind |-> "csv", table |-> df, atoms |-> NoName]

\* Variant: the column is filled with the base name instead of the name given.
SetFileColumnBasename(df, f) ==
    [cols |-> df.cols \cup { "file" },
     rows |-> [k \in 1..Len(df.rows) |-> [df.rows[k] EXCEPT !.file = << "", f[2] >>]]]

\* df["file"] = filename
SetFileColumn(df, f) ==
    [cols |-> df.cols \cup { "file" },
     rows |-> [k \in 1..Len(df.rows) |-> [df.rows[k] EXCEPT !.file = f]]]

RECURSIVE ConcatRows(_)
ConcatRows(tables) ==
    IF tables = << >> THEN << >>
    ELSE tables[1].rows \o ConcatRows(Tail(tables))

\* pd.concat(dfs, ignore_index=True)
concat(tables) ==
    [cols |-> UNION { tables[k].cols : k \in 1..Len(tables) },
     rows |-> ConcatRows(tables)]

-----------------------------------------------------------------------------
(* _file_check *)

\* lines 20-21: a name without a directory part goes to output_dir
FileCheckPath(some_file) ==
    IF some_file[1] = "" THEN << OutputDir, some_file[2], some_file[3] >>
    ELSE some_file

\* Variant: the overwrite test is inverted.
FileCheckRaisesInverted(p) == Exists(p) /\ overwrite

\* Variant: the overwrite flag is not consulted.
FileCheckRaisesAlways(p) == Exists(p)

\* lines 24-29
FileCheckRaises(p) == Exists(p) /\ ~overwrite

\* lines 31-33
FileCheckFs(p) == IF Exists(p) /\ overwrite THEN [fs EXCEPT ![p] = Absent] ELSE fs

-----------------------------------------------------------------------------
(* run_all *)

\* lines 87-93
Filenames(arg) ==
    IF arg.kind = "other" THEN << >> ELSE arg.items

\* Variant: only the xlsx extension is accepted.
ValidExtXlsxOnly(ext) == ext \in { "xlsx" }

\* line 124
ValidExt(ext) == ext \in { "xlsx", "csv" }

\* Variant: off by one, a single file already asks for the summary.
SummaryWantedAtLeastOne(names) == Len(names) >= 1

\* line 121
SummaryWanted(names) == Len(names) > 1

\* line 173
SummaryDue(tables) == Len(tables) > 1

Raise(kind) == [kind |-> kind, fig |-> NoName]

Running == [kind |-> "running", fig |-> NoName]

Init ==
    /\ filename \in FilenameArgs
    /\ summary_file \in SummaryFiles
    /\ overwrite \in BOOLEAN
    /\ fault \in Faults
    /\ outdir \in { "absent", "file", "dir" }
    /\ \E pre \in PreExisting : fs = InitialFs(outdir, pre)
    /\ pc = "start"
    /\ filenames = << >>
    /\ i = 1
    /\ out_ext = ""
    /\ summary_path = NoPath
    /\ excel_file = NoPath
    /\ html_file = NoPath
    /\ atom_df = [file |-> NoName]
    /\ ellipticities = NoTable
    /\ fig = NoName
    /\ dfs = << >>
    /\ ret = Running
    /\ run = 1
    /\ fs0 = fs
    /\ outdir0 = outdir
    /\ prev = [fs |-> fs, outdir |-> outdir, ret |-> Running, dfs |-> << >>]
    /\ attempted = {}
    /\ completed = {}
    /\ checked = {}
    /\ summaryChecked = FALSE
    /\ summaryWritten = FALSE

inputs == << filename, summary_file, overwrite, fault >>
history == << run, fs0, outdir0, prev >>

\* lines 86-97
ParseArgs ==
    /\ pc = "start"
    /\ filenames' = Filenames(filename)
    /\ IF Len(filenames') = 0
       THEN ret' = Raise("ValueError") /\ pc' = "done"
       ELSE ret' = ret /\ pc' = "output_dir"
    /\ UNCHANGED << inputs, history, fs, outdir, i, out_ext, summary_path,
                    excel_file, html_file, atom_df, ellipticities, fig, dfs,
                    attempted, completed, checked, summaryChecked, summaryWritten >>

\* lines 99-117
CheckOutputDir ==
    /\ pc = "output_dir"
    /\ IF outdir = "file" /\ ~overwrite
       THEN ret' = Raise("FileExistsError") /\ pc' = "done" /\ outdir' = outdir
       ELSE ret' = ret /\ pc' = "summary_check" /\ outdir' = "dir"
    /\ UNCHANGED << inputs, history, fs, filenames, i, out_ext, summary_path,
                    excel_file, html_file, atom_df, ellipticities, fig, dfs,
                    attempted, completed, checked, summaryChecked, summaryWritten >>

\* lines 119-131
CheckSummary ==
    /\ pc = "summary_check"
    /\ IF SummaryWanted(filenames)
       THEN /\ out_ext' = summary_file[3]
            /\ IF ~ValidExt(out_ext')
               THEN /\ ret' = Raise("ValueError") /\ pc' = "done"
                    /\ UNCHANGED << fs, summary_path, checked, summaryChecked >>
               ELSE LET p == FileCheckPath(summary_file) IN
                    /\ summaryChecked' = TRUE
                    /\ IF FileCheckRaises(p)
                       THEN /\ ret' = Raise("FileExistsError") /\ pc' = "done"
                            /\ UNCHANGED << fs, summary_path, checked >>
                       ELSE /\ fs' = FileCheckFs(p)
                            /\ summary_path' = p
                            /\ checked' = checked \cup { p }
                            /\ ret' = ret /\ pc' = "check_excel"
       ELSE /\ pc' = "check_excel"
            /\ UNCHANGED << fs, out_ext, summary_path, checked, summaryChecked, ret >>
    /\ UNCHANGED << inputs, history, outdir, filenames, i, excel_file, html_file,
                    atom_df, ellipticities, fig, dfs, attempted, completed,
                    summaryWritten >>

\* lines 135-143
CheckExcelFile ==
    /\ pc = "check_excel"
    /\ attempted' = attempted \cup { i }
    /\ LET p == FileCheckPath(<< "", filenames[i][2], "xlsx" >>) IN
       IF FileCheckRaises(p)
       THEN /\ ret' = Raise("FileExistsError") /\ pc' = "done"
            /\ UNCHANGED << fs, excel_file, checked >>
       ELSE /\ fs' = FileCheckFs(p)
            /\ excel_file' = p
            /\ checked' = checked \cup { p }
            /\ ret' = ret /\ pc' = "check_html"
    /\ UNCHANGED << inputs, history, outdir, filenames, i, out_ext, summary_path,
                    html_file, atom_df, ellipticities, fig, dfs, completed,
                    summaryChecked, summaryWritten >>

\* lines 145-148
CheckHtmlFile ==
    /\ pc = "check_html"
    /\ LET p == FileCheckPath(<< "", filenames[i][2], "html" >>) IN
       IF FileCheckRaises(p)
       THEN /\ ret' = Raise("FileExistsError") /\ pc' = "done"
            /\ UNCHANGED << fs, html_file, checked >>
       ELSE /\ fs' = FileCheckFs(p)
            /\ html_file' = p
            /\ checked' = checked \cup { p }
            /\ ret' = ret /\ pc' = "get_macrocycles"
    /\ UNCHANGED << inputs, history, outdir, filenames, i, out_ext, summary_path,
                    excel_file, atom_df, ellipticities, fig, dfs, attempted,
                    completed, summaryChecked, summaryWritten >>

\* lines 150-157
GetMacrocycles ==
    /\ pc = "get_macrocycles"
    /\ IF Raises(filenames[i], "get_macrocycles")
       THEN ret' = Raise("CoreError") /\ pc' = "done" /\ atom_df' = atom_df
       ELSE ret' = ret /\ pc' = "get_ellipticity" /\ atom_df' = get_macrocycles(filenames[i])
    /\ UNCHANGED << inputs, history, fs, outdir, filenames, i, out_ext, summary_path,
                    excel_file, html_file, ellipticities, fig, dfs, attempted,
                    completed, checked, summaryChecked, summaryWritten >>

\* line 160
GetEllipticity ==
    /\ pc = "get_ellipticity"
    /\ IF Raises(filenames[i], "get_ellipticity")
       THEN ret' = Raise("CoreError") /\ pc' = "done" /\ ellipticities' = ellipticities
       ELSE ret' = ret /\ pc' = "to_excel" /\ ellipticities' = get_ellipticity(atom_df)
    /\ UNCHANGED << inputs, history, fs, outdir, filenames, i, out_ext, summary_path,
                    excel_file, html_file, atom_df, fig, dfs, attempted,
                    completed, checked, summaryChecked, summaryWritten >>

\* line 161
ToExcel ==
    /\ pc = "to_excel"
    /\ IF Raises(filenames[i], "to_excel")
       THEN ret' = Raise("CoreError") /\ pc' = "done" /\ fs' = fs
       ELSE ret' = ret /\ pc' = "plot_results"
            /\ fs' = [fs EXCEPT ![excel_file] = to_excel(ellipticities)]
    /\ UNCHANGED << inputs, history, outdir, filenames, i, out_ext, summary_path,
                    excel_file, html_file, atom_df, ellipticities, fig, dfs,
                    attempted, completed, checked, summaryChecked, summaryWritten >>

\* lines 164-166
PlotResults ==
    /\ pc = "plot_results"
    /\ IF Raises(filenames[i], "plot_results")
       THEN ret' = Raise("CoreError") /\ pc' = "done" /\ UNCHANGED << fs, fig >>
       ELSE /\ ret' = ret /\ pc' = "record"
            /\ fs' = [fs EXCEPT ![html_file] = plot_results(atom_df)]
            /\ fig' = atom_df.file
    /\ UNCHANGED << inputs, history, outdir, filenames, i, out_ext, summary_path,
                    excel_file, html_file, atom_df, ellipticities, dfs,
                    attempted, completed, checked, summaryChecked, summaryWritten >>

\* lines 169-170, and the loop's next iteration
RecordForSummary ==
    /\ pc = "record"
    /\ ellipticities' = SetFileColumn(ellipticities, filenames[i])
    /\ dfs' = Append(dfs, ellipticities')
    /\ completed' = completed \cup { i }
    /\ i' = i + 1
    /\ pc' = IF i < Len(filenames) THEN "check_excel" ELSE "write_summary"
    /\ UNCHANGED << inputs, history, fs, outdir, filenames, out_ext, summary_path,
                    excel_file, html_file, atom_df, fig, ret, attempted,
                    checked, summaryChecked, summaryWritten >>

\* lines 172-186
WriteSummary ==
    /\ pc = "write_summary"
    /\ IF SummaryDue(dfs)
       THEN LET out_df == concat(dfs) IN
            IF out_ext = "xlsx"
            THEN /\ fs' = [fs EXCEPT ![summary_path] = to_excel(out_df)]
                 /\ summaryWritten' = TRUE
                 /\ ret' = [kind |-> "None", fig |-> NoName]
            ELSE IF out_ext = "csv"
            THEN /\ fs' = [fs EXCEPT ![summary_path] = to_csv(out_df)]
                 /\ summaryWritten' = TRUE
                 /\ ret' = [kind |-> "None", fig |-> NoName]
            ELSE /\ ret' = Raise("ValueError")
                 /\ UNCHANGED << fs, summaryWritten >>
       ELSE /\ ret' = [kind |-> "fig", fig |-> fig]
            /\ UNCHANGED << fs, summaryWritten >>
    /\ pc' = "done"
    /\ UNCHANGED << inputs, history, outdir, filenames, i, out_ext, summary_path,
                    excel_file, html_file, atom_df, ellipticities, fig, dfs,
                    attempted, completed, checked, summaryChecked >>

\* The same call made a second time, on the filesystem the first call left.
RunAgain ==
    /\ pc = "done"
    /\ run = 1
    /\ run' = 2
    /\ prev' = [fs |-> fs, outdir |-> outdir, ret |-> ret, dfs |-> dfs]
    /\ fs0' = fs
    /\ outdir0' = outdir
    /\ pc' = "start"
    /\ filenames' = << >>
    /\ i' = 1
    /\ out_ext' = ""
    /\ summary_path' = NoPath
    /\ excel_file' = NoPath
    /\ html_file' = NoPath
    /\ atom_df' = [file |-> NoName]
    /\ ellipticities' = NoTable
    /\ fig' = NoName
    /\ dfs' = << >>
    /\ ret' = Running
    /\ attempted' = {}
    /\ completed' = {}
    /\ checked' = {}
    /\ summaryChecked' = FALSE
    /\ summaryWritten' = FALSE
    /\ UNCHANGED << inputs, fs, outdir >>

Next ==
    \/ ParseArgs
    \/ CheckOutputDir
    \/ CheckSummary
    \/ CheckExcelFile
    \/ CheckHtmlFile
    \/ GetMacrocycles
    \/ GetEllipticity
    \/ ToExcel
    \/ PlotResults
    \/ RecordForSummary
    \/ WriteSummary
    \/ RunAgain

Spec == Init /\ [][Next]_vars

-----------------------------------------------------------------------------
(* Vocabulary of the properties *)

Done == pc = "done"
Returned == ret.kind \in { "None", "fig" }
FileError == ret.kind \in { "CoreError", "FileExistsError" } /\ attempted # {}

N == Len(filenames)

\* Where the outputs of a call are expected on disk.
XlsxOf(f) == << OutputDir, f[2], "xlsx" >>
HtmlOf(f) == << OutputDir, f[2], "html" >>
SummaryTarget == IF summary_file[1] = ""
                 THEN << OutputDir, summary_file[2], summary_file[3] >>
                 ELSE summary_file

PerFileTargets == UNION { { XlsxOf(filenames[k]), HtmlOf(filenames[k]) } : k \in 1..N }
Targets == PerFileTargets \cup (IF N > 1 THEN { SummaryTarget } ELSE {})

\* A file written by some call (not absent, not left from before the calls).
IsOutput(c) == c.kind \in { "xlsx", "csv", "html" }

\* Number of summary rows that come before those of the k-th input file.
RECURSIVE Offset(_)
Offset(k) == IF k <= 1 THEN 0 ELSE Offset(k - 1) + Len(Rings(filenames[k - 1]))

\* The j-th ring of the k-th input file, as a summary row.
SummaryRow(k, j) == [id |-> Rings(filenames[k])[j].id,
                     ellip |-> Rings(filenames[k])[j].ellip,
                     file |-> filenames[k]]

-----------------------------------------------------------------------------
(* C1 *)

\* C1: an error raised while handling one file of the list does not abort
\* the batch: when the call has ended, every other file has been processed.
C1_ErrorDoesNotAbortBatch ==
    (Done /\ FileError) => ((1..N) \ { i }) \subseteq completed

(* C2 *)

\* C2: when some file of a multi-file batch fails, every file that succeeded
\* has its spreadsheet and html on disk after the call, and its rows are in
\* the batch's summary file.
C2_PartialOutputForSucceeded ==
    (Done /\ FileError /\ N > 1) =>
        \A k \in completed :
            /\ Exists(XlsxOf(filenames[k]))
            /\ Exists(HtmlOf(filenames[k]))
            /\ fs[SummaryTarget].kind \in { "xlsx", "csv" }
            /\ "file" \in fs[SummaryTarget].table.cols
            /\ \A j \in 1..Len(Rings(filenames[k])) :
                   \E m \in 1..Len(fs[SummaryTarget].table.rows) :
                       fs[SummaryTarget].table.rows[m] = SummaryRow(k, j)

(* C3 *)

\* C3: after a completed call on more than one input file the summary file
\* holds the concatenation, in input order, of every file's rows, none lost
\* or duplicated, each row's "file" column naming the input it came from.
C3_SummaryIsConcatenation ==
    (Done /\ Returned /\ N > 1) =>
        LET s == fs[SummaryTarget] IN
        /\ s.kind = summary_file[3]
        /\ "file" \in s.table.cols
        /\ Len(s.table.rows) = Offset(N + 1)
        /\ \A k \in 1..N : \A j \in 1..Len(Rings(filenames[k])) :
               s.table.rows[Offset(k) + j] = SummaryRow(k, j)

C3_Witness ==
    /\ Done /\ Returned /\ N > 1
    /\ filenames[1] = << "d1", "a" >>
    /\ filenames[2] = << "", "a" >>
    /\ Len(fs[SummaryTarget].table.rows) = 3

(* C4 *)

CheckPending ==
    \/ pc = "summary_check" /\ N > 1 /\ summary_file[3] \in { "xlsx", "csv" }
    \/ pc \in { "check_excel", "check_html" }

PendingPath ==
    CASE pc = "summary_check" -> SummaryTarget
      [] pc = "check_excel"   -> XlsxOf(filenames[i])
      [] pc = "check_html"    -> HtmlOf(filenames[i])
      [] OTHER                -> NoPath

\* With overwrite=False nothing that existed when the call started is
\* deleted or rewritten.
C5_NoOverwriteKeepsFiles ==
    ~overwrite =>
        /\ \A p \in Paths : fs0[p].kind # "absent" => fs[p] = fs0[p]
        /\ outdir0 = "file" => outdir = "file"

\* A _file_check on an existing path raises FileExistsError and leaves the
\* filesystem alone when overwrite is False, and removes the file when
\* overwrite is True.
C5_CheckStep ==
    (CheckPending /\ Exists(PendingPath)) =>
        IF overwrite
        THEN fs' = [fs EXCEPT ![PendingPath] = Absent] /\ ret' = ret
        ELSE ret'.kind = "FileExistsError" /\ pc' = "done" /\ fs' = fs

\* When the call returns normally every output path it targets holds output
\* written by the call.
C5_ReturnedMeansWritten ==
    (Done /\ Returned) => \A p \in Targets : IsOutput(fs[p])

C6_SecondRunSameTables ==
    (run = 2 /\ Done) =>
        /\ fs = prev.fs
        /\ overwrite => (ret = prev.ret /\ dfs = prev.dfs)
        /\ (~overwrite /\ prev.ret.kind \in { "None", "fig" }) =>
               ret.kind = "FileExistsError"

\* C6 as stated: the second call produces the same tables as the first.
C6_SecondRunIdentical ==
    (run = 2 /\ Done) => (fs = prev.fs /\ ret = prev.ret /\ dfs = prev.dfs)

C6_Witness ==
    /\ run = 2 /\ Done /\ overwrite /\ Returned /\ N > 1
    /\ Len(fs[SummaryTarget].table.rows) > 0
    /\ \E p \in Paths : fs0[p] # Absent /\ IsOutput(fs[p])

(* C7 *)

C8_ValueErrorEffects ==
    ret.kind = "ValueError" =>
        /\ attempted = {} /\ completed = {}
        /\ fs = fs0
        /\ \/ N = 0 /\ outdir = outdir0
           \/ N > 1 /\ summary_file[3] \notin { "xlsx", "csv" } /\ outdir = "dir"

\* C8 as stated: on ValueError nothing has been processed and the
\* filesystem is unchanged.
C8_ValueErrorChangesNothing ==
    ret.kind = "ValueError" =>
        (attempted = {} /\ fs = fs0 /\ outdir = outdir0)

C8_Witness ==
    /\ ret.kind = "ValueError" /\ N > 1 /\ run = 1
    /\ outdir0 = "absent" /\ outdir = "dir"

(* C9 *)

\* C9: on normal return every input file has its own spreadsheet and html in
\* output_dir, holding that input's own results.
C9_EveryInputKeepsItsOutput ==
    (Done /\ Returned) =>
        \A k \in 1..N :
            /\ fs[XlsxOf(filenames[k])].kind = "xlsx"
            /\ Len(fs[XlsxOf(filenames[k])].table.rows) = Len(Rings(filenames[k]))
            /\ \A j \in 1..Len(Rings(filenames[k])) :
                   /\ fs[XlsxOf(filenames[k])].table.rows[j].id = Rings(filenames[k])[j].id
                   /\ fs[XlsxOf(filenames[k])].table.rows[j].ellip = Rings(filenames[k])[j].ellip
            /\ fs[HtmlOf(filenames[k])].kind = "html"
            /\ fs[HtmlOf(filenames[k])].atoms = filenames[k]

====
